---------------------------- MODULE Spec2Model ----------------------------
(***************************************************************************)
(* A model of the ERGO command line client (src/ergo.py): the checksum     *)
(* engine (checksum_file, calculate_s3_etag), the download of a data       *)
(* element with skip-if-identical and the final rename                     *)
(* (download_data_element), and the batch downloads (project_download,     *)
(* download_workflow), the uploads (upload, add_data_element,              *)
(* handle_reads), the creation of a project from the command line, the     *)
(* resolution of the API key and the progress bars.                        *)
(*                                                                         *)
(* Byte strings are sequences over Bytes.  File names are sequences of     *)
(* string tokens (the pieces the f-strings of the source concatenate), so  *)
(* that "S" + "_R1" + "." + "fq" is <<"S", "_R1", ".", "fq">>.             *)
(***************************************************************************)
EXTENDS Integers, Sequences, FiniteSets

VARIABLES
    \* ---- checksum engine: one call of checksum_file / calculate_s3_etag
    ck_pc,      \* "idle" | "reading" | "returned" | "raised"
    ck_args,    \* the arguments of the call in progress
    fp,         \* number of bytes of the file consumed by fp.read
    md5s,       \* the list md5s of calculate_s3_etag (per-chunk digests)
    chunks,     \* history: the chunks fp.read returned, in order
    ck_result,  \* what the call returned or raised
    \* ---- local file system, server, and the download process
    remote,     \* server: data element id -> data element
    fs,         \* local directory: file name -> bytes, for the files that exist
    proc,       \* "idle" | "running" | "done" | "exit1" | "raised"
    batch,      \* the batch command in progress: entry, items, rename
    queue,      \* items of the batch not yet reached by the for loop
    attempted,  \* history: items for which download_data_element was called
    last,       \* history: the latest call of download_data_element
    \* ---- the client object and the commands that upload or create
    apikey,     \* self.apikey
    headers,    \* self.headers: a set of <<name, value>>
    up_pc,      \* "idle" | "running" | "linking" | "done" | "exit1" | "raised"
    cmd,        \* the arguments of the command in progress
    idx,        \* passes of the for loop of the command completed
    pair_des,   \* p1_de and p2_de between the uploads of a pair and its updates
    log,        \* history: the requests the command has sent, in order
    \* ---- the environment of the program, from one run to the next
    env_key,    \* ERGO_API_KEY in os.environ
    dotfile,    \* ~/.ergo_api_key
    home,       \* whether the home directory exists
    prompted,   \* history: whether the latest run asked for the key
    runs,       \* history: runs of the program so far
    \* ---- one transfer with its progress bar
    io_pc,      \* "idle" | "uploading" | "downloading" | "closed"
    pbar,       \* the bar: position n, total, disable
    stream,     \* the bytes of the body sent or of the answer received
    bytes_read, \* bytes_read of the MultipartEncoderMonitor
    out,        \* the bytes written to the local file so far
    \* ---- the workflows of the server and the command that updates one
    pipelines,  \* server: workflow id -> run
    wf_pc,      \* "idle" | "collecting" | "done" | "raised"
    wf_args,    \* args of update_workflow: id, inputs (given or not)
    wf_i,       \* passes of the for loop of update_workflow completed
    elements,   \* the keys of the dict elements, in insertion order
    wf_log,     \* history: the requests update_workflow has sent, in order
    err         \* history: what update_workflow wrote to stderr

ckVars == <<ck_pc, ck_args, fp, md5s, chunks, ck_result>>
dlVars == <<remote, fs, proc, batch, queue, attempted, last>>
upVars == <<apikey, headers, up_pc, cmd, idx, pair_des, log>>
keyVars == <<env_key, dotfile, home, prompted, runs>>
pbVars == <<io_pc, pbar, stream, bytes_read, out>>
wfVars == <<pipelines, wf_pc, wf_args, wf_i, elements, wf_log, err>>
vars == <<ckVars, dlVars, upVars, keyVars, pbVars, wfVars>>

\* What a step of the checksum engine leaves alone, and a step of a download.
notCk == <<dlVars, upVars, keyVars, pbVars, wfVars>>
notDl == <<ckVars, upVars, keyVars, pbVars, wfVars>>
notUp == <<ckVars, dlVars, pbVars, wfVars>>
notPb == <<ckVars, dlVars, upVars, keyVars, wfVars>>
notWf == <<ckVars, fs, proc, batch, queue, attempted, last, upVars, keyVars, pbVars>>

---------------------------------------------------------------------------
\* Bounds of the model.

\* Longest file handed to the checksum engine.
MaxLen == 7
\* Largest chunk_size handed to calculate_s3_etag.
MaxChunk == 2
\* smart_open.s3.DEFAULT_MIN_PART_SIZE (50 MiB in the library), scaled down:
\* the chunk size checksum_file passes on for "etag".
DEFAULT_MIN_PART_SIZE == 2

Bytes == {0, 1}

RECURSIVE ByteStrings(_)
ByteStrings(n) ==
    IF n = 0 THEN {<<>>}
    ELSE LET shorter == ByteStrings(n - 1)
         IN  shorter \cup {Append(s, b) : s \in {t \in shorter : Len(t) = n - 1}, b \in Bytes}

Min(a, b) == IF a < b THEN a ELSE b

---------------------------------------------------------------------------
\* Hashing.  A digest is a number below HashModulus, folded over the input
\* from left to right (a polynomial hash): a fixed-width value that depends
\* on every byte and on their order.  The digest of the empty input is the
\* same whether the input is an empty file or an empty join of digests, as
\* for hashlib.md5(b'').

HashModulus == 65521
HashBase == 31

RECURSIVE HashFold(_, _)
HashFold(data, acc) ==
    IF data = <<>> THEN acc
    ELSE HashFold(Tail(data), (acc * HashBase + Head(data) + 1) % HashModulus)

\* hashlib.md5(data).digest()
md5(data) == HashFold(data, 0)

\* b''.join(m.digest() for m in md5s): digests have a fixed width, so the
\* join is the sequence of the digests, each a unit of the hash input.
JoinDigests(ds) == ds

\* The digest `openssl <algorithm> <file>` prints after "= ".
AlgorithmIndex(algorithm) ==
    CASE algorithm = "md5" -> 0
      [] algorithm = "sha" -> 1
      [] algorithm = "sha1" -> 2
      [] algorithm = "md4" -> 3
      [] algorithm = "md2" -> 4
      [] algorithm = "mdc2" -> 5
      [] algorithm = "sha224" -> 6
      [] algorithm = "sha256" -> 7
      [] algorithm = "sha384" -> 8
      [] algorithm = "sha512" -> 9
      [] OTHER -> 10

openssl(algorithm, data) ==
    IF algorithm = "md5" THEN md5(data)
    ELSE HashFold(data, AlgorithmIndex(algorithm))

---------------------------------------------------------------------------
\* Results of the checksum engine.  A checksum string is a record: `quoted`
\* (wrapped in double quotes), `hex` (the digest printed in hex) and `suffix`
\* (<<n>> for a trailing "-n", <<>> for none).

Checksum(quoted, hex, suffix) ==
    [kind |-> "value", quoted |-> quoted, hex |-> hex, suffix |-> suffix]

Raised(exception) ==
    [kind |-> exception, quoted |-> FALSE, hex |-> 0, suffix |-> <<>>]

NoResult == Raised("none")

\* A path: whether os.path.isfile holds for it, and the bytes of the file.
File(data) == [isfile |-> TRUE, data |-> data]
NoFile == [isfile |-> FALSE, data |-> <<>>]

\* data = fp.read(chunk_size) with `pos` bytes already consumed: the next
\* chunk_size bytes, or what is left of the file when that is less.
Read(data, pos, chunk_size) ==
    SubSeq(data, pos + 1, Min(pos + chunk_size, Len(data)))

\* EtagOfDigests with the test of force_chunked_output left out.
EtagOfDigestsUnforced(digests, force_chunked_output) ==
    IF Len(digests) = 1
    THEN Checksum(TRUE, digests[1], <<>>)
    ELSE Checksum(TRUE, md5(JoinDigests(digests)), <<Len(digests)>>)

\* The tail of calculate_s3_etag, after the read loop.
EtagOfDigests(digests, force_chunked_output) ==
    IF Len(digests) = 1 /\ force_chunked_output = FALSE
    THEN Checksum(TRUE, digests[1], <<>>)
    ELSE Checksum(TRUE, md5(JoinDigests(digests)), <<Len(digests)>>)

\* The read loop of calculate_s3_etag, run to its end from position pos.
RECURSIVE ReadLoop(_, _, _, _)
ReadLoop(data, pos, chunk_size, digests) ==
    LET chunk == Read(data, pos, chunk_size)
    IN  IF chunk = <<>> THEN digests
        ELSE ReadLoop(data, pos + Len(chunk), chunk_size, Append(digests, md5(chunk)))

calculate_s3_etag(data, chunk_size, force_chunked_output) ==
    EtagOfDigests(ReadLoop(data, 0, chunk_size, <<>>), force_chunked_output)

SupportedAlgorithms ==
    {"md5", "sha", "sha1", "md4", "md2", "mdc2", "sha224", "sha256", "sha384",
     "sha512", "etag"}

\* ChecksumGuard with the two checks in the other order.
ChecksumGuardFileFirst(file, algorithm) ==
    IF ~file.isfile THEN "ValueError"
    ELSE IF algorithm \notin {"md5", "sha", "sha1", "md4", "md2", "mdc2", "sha224",
                               "sha256", "sha384", "sha512", "etag"}
    THEN "NotImplementedError"
    ELSE "ok"

\* The two checks checksum_file makes before it reads anything: the exception
\* it raises, or "ok".
ChecksumGuard(file, algorithm) ==
    IF algorithm \notin SupportedAlgorithms THEN "NotImplementedError"
    ELSE IF ~file.isfile THEN "ValueError"
    ELSE "ok"

\* checksum_file as a function of the file: what it returns or raises.
checksum_file(file, algorithm, force_chunked_output) ==
    LET guard == ChecksumGuard(file, algorithm)
    IN  IF guard # "ok" THEN Raised(guard)
        ELSE IF algorithm = "etag"
        THEN calculate_s3_etag(file.data, DEFAULT_MIN_PART_SIZE, force_chunked_output)
        ELSE Checksum(FALSE, openssl(algorithm, file.data), <<>>)

---------------------------------------------------------------------------
\* The checksum engine, step by step: a call, the reads of the loop, the
\* return.

Algorithms == SupportedAlgorithms \cup {"crc32", "ETAG"}

Files == {File(data) : data \in ByteStrings(MaxLen)} \cup {NoFile}

CkArgs(entry, file, algorithm, chunk_size, force_chunked_output) ==
    [entry |-> entry, file |-> file, algorithm |-> algorithm,
     chunk_size |-> chunk_size, force_chunked_output |-> force_chunked_output]

CkInit ==
    /\ ck_pc = "idle"
    /\ ck_args = CkArgs("none", NoFile, "etag", 1, FALSE)
    /\ fp = 0
    /\ md5s = <<>>
    /\ chunks = <<>>
    /\ ck_result = NoResult

CkFree == ck_pc = "idle"

\* calculate_s3_etag(file_path, chunk_size, force_chunked_output) called on
\* an existing file: md5s = [] and the file is opened.
CallCalculateS3Etag ==
    /\ CkFree
    /\ \E data \in ByteStrings(MaxLen), chunk_size \in 1..MaxChunk, force \in BOOLEAN :
         ck_args' = CkArgs("calculate_s3_etag", File(data), "etag", chunk_size, force)
    /\ ck_pc' = "reading"
    /\ fp' = 0
    /\ md5s' = <<>>
    /\ chunks' = <<>>
    /\ ck_result' = NoResult
    /\ UNCHANGED notCk

\* checksum_file(filename, algorithm, force_chunked_output): the two guards,
\* then either the call of calculate_s3_etag or the openssl subprocess, which
\* reads the whole file.
CallChecksumFile ==
    /\ CkFree
    /\ \E file \in Files, algorithm \in Algorithms, force \in BOOLEAN :
         LET guard == ChecksumGuard(file, algorithm)
         IN  /\ ck_args' = CkArgs("checksum_file", file, algorithm,
                                  DEFAULT_MIN_PART_SIZE, force)
             /\ md5s' = <<>>
             /\ IF guard # "ok"
                THEN /\ ck_pc' = "raised"
                     /\ ck_result' = Raised(guard)
                     /\ fp' = 0
                     /\ chunks' = <<>>
                ELSE IF algorithm = "etag"
                THEN /\ ck_pc' = "reading"
                     /\ ck_result' = NoResult
                     /\ fp' = 0
                     /\ chunks' = <<>>
                ELSE /\ ck_pc' = "returned"
                     /\ ck_result' = Checksum(FALSE, openssl(algorithm, file.data), <<>>)
                     /\ fp' = Len(file.data)
                     /\ chunks' = <<file.data>>
    /\ UNCHANGED notCk

\* The caller has the value or the exception: the next call starts afresh.
CallEnds ==
    /\ ck_pc \in {"returned", "raised"}
    /\ ck_pc' = "idle"
    /\ ck_args' = CkArgs("none", NoFile, "etag", 1, FALSE)
    /\ fp' = 0
    /\ md5s' = <<>>
    /\ chunks' = <<>>
    /\ ck_result' = NoResult
    /\ UNCHANGED notCk

\* One pass of the while loop in which fp.read returned data:
\* md5s.append(hashlib.md5(data)).
ReadChunk ==
    /\ ck_pc = "reading"
    /\ LET data == Read(ck_args.file.data, fp, ck_args.chunk_size)
       IN  /\ data # <<>>
           /\ md5s' = Append(md5s, md5(data))
           /\ chunks' = Append(chunks, data)
           /\ fp' = fp + Len(data)
    /\ UNCHANGED <<ck_pc, ck_args, ck_result>>
    /\ UNCHANGED notCk

\* The pass in which fp.read returned no data: break, then the return value.
ReturnEtag ==
    /\ ck_pc = "reading"
    /\ Read(ck_args.file.data, fp, ck_args.chunk_size) = <<>>
    /\ ck_result' = EtagOfDigests(md5s, ck_args.force_chunked_output)
    /\ ck_pc' = "returned"
    /\ UNCHANGED <<ck_args, fp, md5s, chunks>>
    /\ UNCHANGED notCk

---------------------------------------------------------------------------
\* Data elements, file names and the local directory.

\* An optional metadata key is a sequence: <<>> when the key is absent,
\* <<v>> when it is present with value v.
DataElement(id, name, extension, sample_name, orientation_, algorithm, value, content) ==
    [id |-> id, name |-> name, type |-> [extension |-> extension],
     size |-> Len(content),
     metadata |-> [sample_name |-> sample_name, orientation |-> orientation_,
                   checksum |-> [algorithm |-> algorithm, value |-> value]],
     content |-> content]

\* Characters sanitize_filename.sanitize removes from a name.
IllegalTokens == {"/", "?"}

Legal(token) == token \notin IllegalTokens

sanitize(name) == SelectSeq(name, Legal)

Renames == {"ergo_id", "ergo_name", "sample_name"}

\* local_name = F"{did}.{de['type']['extension']}"
IdName(did, de) == <<did, ".", de.type.extension>>

\* ResolveName with the two suffixes exchanged.
ResolveNameSwapped(de, did, rename) ==
    LET named(n) == [raises |-> FALSE, warned |-> FALSE, name |-> n]
    IN  IF rename = "ergo_name" THEN named(de.name)
        ELSE IF rename = "sample_name"
        THEN IF de.metadata.sample_name = <<>>
             THEN [raises |-> FALSE, warned |-> TRUE, name |-> de.name]
             ELSE LET sample == de.metadata.sample_name[1]
                      o == de.metadata.orientation
                  IN  IF o = <<>> THEN named(<<sample, ".", de.type.extension>>)
                      ELSE IF o[1] = "forward"
                      THEN named(<<sample, "_R2", ".", de.type.extension>>)
                      ELSE IF o[1] = "reverse"
                      THEN named(<<sample, "_R1", ".", de.type.extension>>)
                      ELSE [raises |-> TRUE, warned |-> FALSE, name |-> <<sample>>]
        ELSE named(<<did, ".", de.type.extension>>)

\* ResolveName without the final else: an orientation that is neither
\* forward nor reverse adds no suffix.
ResolveNameLenient(de, did, rename) ==
    LET named(n) == [raises |-> FALSE, warned |-> FALSE, name |-> n]
    IN  IF rename = "ergo_name" THEN named(de.name)
        ELSE IF rename = "sample_name"
        THEN IF de.metadata.sample_name = <<>>
             THEN [raises |-> FALSE, warned |-> TRUE, name |-> de.name]
             ELSE LET sample == de.metadata.sample_name[1]
                      o == de.metadata.orientation
                  IN  IF o # <<>> /\ o[1] = "forward"
                      THEN named(<<sample, "_R1", ".", de.type.extension>>)
                      ELSE IF o # <<>> /\ o[1] = "reverse"
                      THEN named(<<sample, "_R2", ".", de.type.extension>>)
                      ELSE named(<<sample, ".", de.type.extension>>)
        ELSE named(<<did, ".", de.type.extension>>)

\* ResolveName without the fallback: a missing sample name falls through to
\* the orientation test, as if the sample name were there.
ResolveNameNoFallback(de, did, rename) ==
    LET named(n) == [raises |-> FALSE, warned |-> FALSE, name |-> n]
    IN  IF rename = "ergo_name" THEN named(de.name)
        ELSE IF rename = "sample_name"
        THEN LET o == de.metadata.orientation
             IN  IF de.metadata.sample_name = <<>> /\ (o = <<>> \/ o[1] \in {"forward", "reverse"})
                 THEN [raises |-> FALSE, warned |-> TRUE, name |-> de.name]
                 ELSE IF de.metadata.sample_name = <<>>
                 THEN [raises |-> TRUE, warned |-> FALSE, name |-> de.name]
                 ELSE LET sample == de.metadata.sample_name[1]
                      IN  IF o = <<>> THEN named(<<sample, ".", de.type.extension>>)
                          ELSE IF o[1] = "forward"
                          THEN named(<<sample, "_R1", ".", de.type.extension>>)
                          ELSE IF o[1] = "reverse"
                          THEN named(<<sample, "_R2", ".", de.type.extension>>)
                          ELSE [raises |-> TRUE, warned |-> FALSE, name |-> <<sample>>]
        ELSE named(<<did, ".", de.type.extension>>)

\* The if/elif over `rename` that sets new_name: the name before it is
\* sanitized, whether the NotImplementedError for the orientation is raised,
\* and whether the missing-sample-name warning is written.
ResolveName(de, did, rename) ==
    LET named(n) == [raises |-> FALSE, warned |-> FALSE, name |-> n]
    IN  IF rename = "ergo_name" THEN named(de.name)
        ELSE IF rename = "sample_name"
        THEN IF de.metadata.sample_name = <<>>
             THEN [raises |-> FALSE, warned |-> TRUE, name |-> de.name]
             ELSE LET sample == de.metadata.sample_name[1]
                      o == de.metadata.orientation
                  IN  IF o = <<>> THEN named(<<sample, ".", de.type.extension>>)
                      ELSE IF o[1] = "forward"
                      THEN named(<<sample, "_R1", ".", de.type.extension>>)
                      ELSE IF o[1] = "reverse"
                      THEN named(<<sample, "_R2", ".", de.type.extension>>)
                      ELSE [raises |-> TRUE, warned |-> FALSE, name |-> <<sample>>]
        ELSE named(IdName(did, de))

\* The local directory is a function from the names of the files that exist
\* to their bytes.
EmptyDir == [n \in {} |-> <<>>]

exists(dir, name) == name \in DOMAIN dir

\* open(name, "wb") and the writes: the file holds exactly `data` afterwards.
WriteFile(dir, name, data) ==
    [n \in DOMAIN dir \cup {name} |-> IF n = name THEN data ELSE dir[n]]

\* os.rename(src, dst), src existing.
os_rename(dir, src, dst) ==
    [n \in (DOMAIN dir \ {src}) \cup {dst} |-> IF n = dst THEN dir[src] ELSE dir[n]]

Statuses == {200, 500}

\* get_data_element: the data element, or RuntimeError (after check_status
\* has written the error) when the status is not 200.
get_data_element(did, meta_status) ==
    IF meta_status = 200
    THEN [raises |-> FALSE, de |-> <<remote[did]>>]
    ELSE [raises |-> TRUE, de |-> <<>>]

\* VerifyLocal with the checksum computed without force_chunked_output.
VerifyLocalUnforced(dir, local_name, de) ==
    IF ~exists(dir, local_name) THEN "absent"
    ELSE LET checksum == checksum_file(File(dir[local_name]),
                                       de.metadata.checksum.algorithm, FALSE)
         IN  IF checksum.kind # "value" THEN checksum.kind
             ELSE IF checksum = de.metadata.checksum.value THEN "match"
             ELSE "mismatch"

\* The check of an existing local file against the checksum of the server:
\* "absent" (no file at local_name), "match" (return without download),
\* "mismatch" (download again), or the exception checksum_file raises.
VerifyLocal(dir, local_name, de) ==
    IF ~exists(dir, local_name) THEN "absent"
    ELSE LET checksum == checksum_file(File(dir[local_name]),
                                       de.metadata.checksum.algorithm, TRUE)
         IN  IF checksum.kind # "value" THEN checksum.kind
             ELSE IF checksum = de.metadata.checksum.value THEN "match"
             ELSE "mismatch"

\* Fetch with the file opened for appending ("ab").
FetchAppending(dir, local_name, de, dl_status) ==
    IF dl_status = 200
    THEN [dir |-> WriteFile(dir, local_name,
                            (IF exists(dir, local_name) THEN dir[local_name] ELSE <<>>)
                                \o de.content),
          written |-> Len(de.content)]
    ELSE [dir |-> dir, written |-> 0]

\* The download request and the writes: on 200 the file at local_name is
\* opened with "wb" and receives the blocks of the answer; on any other
\* status nothing is written.
Fetch(dir, local_name, de, dl_status) ==
    IF dl_status = 200
    THEN [dir |-> WriteFile(dir, local_name, de.content), written |-> Len(de.content)]
    ELSE [dir |-> dir, written |-> 0]

\* RenameStep without the test of os.path.exists(new_name): os.rename
\* replaces the file at new_name.
RenameStepOverwrite(dir, local_name, new_name) ==
    IF new_name = local_name
    THEN [at |-> "return", exception |-> "none", renamed |-> FALSE, dir |-> dir]
    ELSE IF ~exists(dir, local_name)
    THEN [at |-> "os.rename", exception |-> "FileNotFoundError", renamed |-> FALSE, dir |-> dir]
    ELSE [at |-> "return", exception |-> "none", renamed |-> TRUE,
          dir |-> [n \in (DOMAIN dir \ {local_name}) \cup {new_name} |->
                      IF n = new_name THEN dir[local_name] ELSE dir[n]]]

\* The rename at the end: exit(1) when new_name exists, else os.rename, which
\* raises FileNotFoundError when there is no file at local_name.
RenameStep(dir, local_name, new_name) ==
    IF new_name = local_name
    THEN [at |-> "return", exception |-> "none", renamed |-> FALSE, dir |-> dir]
    ELSE IF exists(dir, new_name)
    THEN [at |-> "collision", exception |-> "Exit1", renamed |-> FALSE, dir |-> dir]
    ELSE IF ~exists(dir, local_name)
    THEN [at |-> "os.rename", exception |-> "FileNotFoundError", renamed |-> FALSE, dir |-> dir]
    ELSE [at |-> "return", exception |-> "none", renamed |-> TRUE,
          dir |-> os_rename(dir, local_name, new_name)]

\* One call of download_data_element, from the request of get_data_element
\* to the return, the exit or the exception.  meta_status and dl_status are
\* the answers of the server to the two requests; dir is the local directory
\* when the call starts.  The result is what the call did (`call`) and the
\* directory it leaves (`dir`).
\*   at         where the call ended
\*   outcome    "Skipped" | "Downloaded" | "Returned" (a return without any
\*              byte downloaded) | "Exit1" | the exception raised
\*   requests   the requests sent, in order
\*   resolved   new_name before sanitize, local_name and new_name after it
\*   verdict    what the check of the local file gave ("none": not reached)
Call(did, rename, end, outcome, reqs, dl_status, names, verdict, written, renamed) ==
    [did |-> did, rename |-> rename, at |-> end, outcome |-> outcome,
     requests |-> reqs, dl_status |-> dl_status,
     resolved |-> names[1], local_name |-> names[2], new_name |-> names[3],
     warned |-> names[4], verdict |-> verdict, written |-> written, renamed |-> renamed]

Done(call, dir) == [call |-> call, dir |-> dir]

Unnamed == <<<<>>, <<>>, <<>>, FALSE>>

download_data_element(did, rename, meta_status, dl_status, dir) ==
    LET early(end, outcome, names, verdict) ==
            Done(Call(did, rename, end, outcome, <<"metadata">>, 0, names, verdict, 0, FALSE),
                 dir)
        got == get_data_element(did, meta_status)
    IN  IF got.raises THEN early("get_data_element", "RuntimeError", Unnamed, "none")
        ELSE
        LET de == got.de[1]
            resolved == ResolveName(de, did, rename)
            local_name == sanitize(IdName(did, de))
            new_name == sanitize(resolved.name)
            names == <<resolved.name, local_name, new_name, resolved.warned>>
        IN  IF resolved.raises THEN early("orientation", "NotImplementedError", Unnamed, "none")
            ELSE
            LET verdict == VerifyLocal(dir, local_name, de)
            IN  IF verdict = "match" THEN early("skip", "Skipped", names, verdict)
                ELSE IF verdict \notin {"absent", "mismatch"}
                THEN early("checksum_file", verdict, names, verdict)
                ELSE
                LET fetched == Fetch(dir, local_name, de, dl_status)
                    moved == RenameStep(fetched.dir, local_name, new_name)
                    outcome == IF moved.exception # "none" THEN moved.exception
                               ELSE IF dl_status = 200 THEN "Downloaded"
                               ELSE "Returned"
                IN  Done(Call(did, rename, moved.at, outcome, <<"metadata", "download">>,
                              dl_status, names, verdict, fetched.written, moved.renamed),
                         moved.dir)

\* The outcomes with which download_data_element returns to its caller.
Returns == {"Skipped", "Downloaded", "Returned"}

---------------------------------------------------------------------------
\* The batch downloads.  A command runs as one process: it starts, calls
\* download_data_element once per item, and ends by returning ("done"), by
\* exit(1) ("exit1") or by an exception nobody catches ("raised").  The local
\* directory outlives the process; the next command finds what this one left.

\* Lists of distinct ids of data elements of the server.
ItemLists ==
    LET ids == DOMAIN remote
    IN  {s \in UNION {[1..n -> ids] : n \in 0..Cardinality(ids)} :
            \A i, j \in DOMAIN s : i # j => s[i] # s[j]}

\* The inputs and outputs of a workflow definition: an entry is <<id>> when
\* it has the key data_element_id and <<>> when it has not.
RECURSIVE Entries(_)
Entries(items) ==
    IF items = <<>> THEN <<>> ELSE <<<<Head(items)>>>> \o Entries(Tail(items))

HasId(entry) == entry # <<>>

RECURSIVE EntryIds(_)
EntryIds(entries) ==
    IF entries = <<>> THEN <<>>
    ELSE IF HasId(Head(entries))
    THEN <<Head(entries)[1]>> \o EntryIds(Tail(entries))
    ELSE EntryIds(Tail(entries))

\* The items of a project that pass args.filter (every item when it is empty).
RECURSIVE Filtered(_, _)
Filtered(items, filter) ==
    IF items = <<>> THEN <<>>
    ELSE IF filter = {} \/ remote[Head(items)].type.extension \in filter
    THEN <<Head(items)>> \o Filtered(Tail(items), filter)
    ELSE Filtered(Tail(items), filter)

Filters == {{}, {"fq"}}

Batch(entry, items, rename) == [entry |-> entry, items |-> items, rename |-> rename]

NoCall ==
    Call("none", "none", "none", "none", <<>>, 0, Unnamed, "none", 0, FALSE)

ProcFree == proc \in {"idle", "done", "exit1", "raised"}

\* project_download up to the for loop: get_project, which returns None on
\* a status other than 200, and then project["data_elements"] raises
\* TypeError.
project_download ==
    /\ ProcFree
    /\ \/ \E items \in ItemLists, filter \in Filters, rename \in Renames :
            /\ proc' = "running"
            /\ batch' = Batch("project_download", Filtered(items, filter), rename)
            /\ queue' = Filtered(items, filter)
       \/ \E status \in Statuses \ {200} :
            /\ proc' = "raised"
            /\ batch' = Batch("project_download", <<>>, "ergo_name")
            /\ queue' = <<>>
    /\ attempted' = <<>>
    /\ UNCHANGED <<remote, fs, last>>
    /\ UNCHANGED notDl

\* download_workflow up to the for loops: the request for the run, then the
\* inputs (with --inputs) followed by the outputs (with --outputs), the
\* entries without data_element_id left out.  The inputs of the run start
\* with an entry that is no data element.
download_workflow ==
    /\ ProcFree
    /\ \/ \E items \in ItemLists, rename \in Renames,
             download_inputs \in BOOLEAN, download_outputs \in BOOLEAN :
            \E k \in 0..Len(items) :
              LET inputs == <<<<>>>> \o Entries(SubSeq(items, 1, k))
                  outputs == Entries(SubSeq(items, k + 1, Len(items)))
                  reached == (IF download_inputs THEN EntryIds(inputs) ELSE <<>>)
                             \o (IF download_outputs THEN EntryIds(outputs) ELSE <<>>)
              IN  /\ proc' = "running"
                  /\ batch' = Batch("download_workflow", reached, rename)
                  /\ queue' = reached
       \/ \E status \in Statuses \ {200} :
            /\ proc' = "done"
            /\ batch' = Batch("download_workflow", <<>>, "ergo_name")
            /\ queue' = <<>>
    /\ attempted' = <<>>
    /\ UNCHANGED <<remote, fs, last>>
    /\ UNCHANGED notDl

\* `files download -i ID`: args.func(args) is
\* self.download_data_element(args), a call without the required argument
\* rename, which raises TypeError before the body of the method runs: no
\* request is sent and no file is touched.
files_download ==
    /\ ProcFree
    /\ \E did \in DOMAIN remote :
         /\ batch' = Batch("files_download", <<did>>, "none")
         /\ queue' = <<did>>
    /\ proc' = "raised"
    /\ attempted' = <<>>
    /\ UNCHANGED <<remote, fs, last>>
    /\ UNCHANGED notDl

\* One pass of the for loop: self.download_data_element(id, args.rename).
\* A return goes on to the next item; exit(1) and an exception end the
\* process with the rest of the items not reached.
DownloadItem ==
    /\ proc = "running"
    /\ queue # <<>>
    /\ \E meta_status \in Statuses, dl_status \in Statuses :
         LET did == Head(queue)
             r == download_data_element(did, batch.rename, meta_status, dl_status, fs)
         IN  /\ last' = r.call
             /\ fs' = r.dir
             /\ attempted' = Append(attempted, did)
             /\ IF r.call.outcome \in Returns
                THEN /\ proc' = "running"
                     /\ queue' = Tail(queue)
                ELSE /\ proc' = IF r.call.outcome = "Exit1" THEN "exit1" ELSE "raised"
                     /\ queue' = queue
    /\ UNCHANGED <<remote, batch>>
    /\ UNCHANGED notDl

\* The for loop has no item left: the command returns.
BatchReturn ==
    /\ proc = "running"
    /\ queue = <<>>
    /\ proc' = "done"
    /\ UNCHANGED <<remote, fs, batch, queue, attempted, last>>
    /\ UNCHANGED notDl

---------------------------------------------------------------------------
\* The client object, its requests, and upload.

\* Files handed over in one list on the command line, at most.
MaxFiles == 2

\* Requests of one command that the server answers with a status other
\* than 200, at most.
MaxFailures == 2

Keys == {<<"k1">>, <<"k2">>}

\* self.headers = {"Authorization": "Bearer " + self.apikey}: a dict is the
\* set of its <<name, value>> items.
ERGO_init(key) == {<<"Authorization", <<"Bearer", key>>>>}

\* headers.copy()
Copy(dict) == dict

\* dict.update({name: value})
Update(dict, name, value) ==
    {item \in dict : item[1] # name} \cup {<<name, value>>}

\* UploadHeaders without the copy: headers is self.headers itself.
UploadHeadersShared(self_headers) ==
    LET updated == Update(self_headers, "Content-Type", <<"multipart/form-data", "boundary">>)
    IN  [self |-> updated, request |-> updated]

\* The headers of the request of upload, and self.headers afterwards.
UploadHeaders(self_headers) ==
    [self |-> self_headers,
     request |-> Update(Copy(self_headers), "Content-Type",
                        <<"multipart/form-data", "boundary">>)]

\* A request to the server and the status of its answer.  What a request
\* carries besides is optional: <<>> when it has none, <<v>> when it has v.
Request(op, status, sent_headers) ==
    [op |-> op, status |-> status, headers |-> sent_headers,
     file |-> <<>>, de |-> <<>>, project |-> <<>>, orientation |-> <<>>,
     pair |-> <<>>, interleaved |-> <<>>, permissions |-> <<>>]

\* The id the server gives the next data element uploaded: the n-th upload
\* it accepts from the command becomes data element n.
NextId(requests) ==
    1 + Cardinality({i \in DOMAIN requests :
                        requests[i].op = "upload" /\ requests[i].status = 200})

\* The requests answered with a status other than 200.
Failures(requests) ==
    Cardinality({i \in DOMAIN requests : requests[i].status # 200})

\* What a call made by a command gives: the requests it sent, the data
\* element it returned (<<>> for None), the exception it raised, and
\* self.headers afterwards.
Outcome(reqs, de, raises, self_headers) ==
    [reqs |-> reqs, de |-> de, raises |-> raises, headers |-> self_headers]

\* upload(f, silent, genome, project): the POST of the multipart body; when
\* check_status fails the method falls off its end and returns None.  With a
\* project, get_project (None on a failure, and then project["data_elements"]
\* raises TypeError) and update_project.
upload(f, project, statuses, next_id, self_headers) ==
    LET h == UploadHeaders(self_headers)
        post == [Request("upload", statuses[1], h.request) EXCEPT !.file = <<f>>]
        get == [Request("get_project", statuses[2], h.self) EXCEPT !.project = project]
        put == [Request("update_project", statuses[3], h.self)
                   EXCEPT !.project = project, !.de = <<next_id>>]
    IN  IF statuses[1] # 200 THEN Outcome(<<post>>, <<>>, "none", h.self)
        ELSE IF project = <<>> THEN Outcome(<<post>>, <<next_id>>, "none", h.self)
        ELSE IF statuses[2] # 200 THEN Outcome(<<post, get>>, <<>>, "TypeError", h.self)
        ELSE Outcome(<<post, get, put>>, <<next_id>>, "none", h.self)

\* The module-level dict orientation, keyed by the letters of the code.
orientation(code) ==
    CASE code = <<"f">> -> "forward"
      [] code = <<"r">> -> "reverse"
      [] code = <<"f", "f">> -> "forward, forward"
      [] code = <<"f", "r">> -> "forward, reverse"
      [] code = <<"r", "f">> -> "reverse, forward"

\* choices=["fr", "rf", "ff"] of --orientation
OrientationCodes == {<<"f", "r">>, <<"r", "f">>, <<"f", "f">>}

\* The files of one list of the command line: list 1 is -1, list 2 is -2 and
\* list 0 is -f of `files add`.
FileList(list, n) == [i \in 1..n |-> [list |-> list, index |-> i]]

Cmd(entry, first, second, project, code, interleaved, permissions) ==
    [entry |-> entry, first |-> first, second |-> second, project |-> project,
     orientation |-> code, interleaved |-> interleaved, permissions |-> permissions]

NoCmd == Cmd("none", <<>>, <<>>, <<>>, <<"f", "r">>, FALSE, <<>>)

NoPair == <<<<>>, <<>>>>

\* A client object runs one command: the constructor parses the command line
\* and calls args.func(args) once.
UpFree == up_pc = "idle"

\* The client object as the constructor leaves it, no command started.
UpInit(keys) ==
    /\ apikey \in keys
    /\ headers = ERGO_init(apikey)
    /\ up_pc = "idle"
    /\ cmd = NoCmd
    /\ idx = 0
    /\ pair_des = NoPair
    /\ log = <<>>

---------------------------------------------------------------------------
\* The commands that upload.  A command runs as one process: it starts,
\* makes one pass of its for loop per file (or pair of files), and ends by
\* returning ("done") or by an exception nobody catches ("raised").

\* The id of the project handle_reads creates, and the calling user.
NewProject == "N"
CallingUser == "u0"

\* add_data_element up to the for loop.
add_data_element ==
    /\ UpFree
    /\ \E n \in 1..MaxFiles, project \in {<<>>, <<"P">>} :
         cmd' = Cmd("add_data_element", FileList(0, n), <<>>, project, <<"f", "r">>, FALSE, <<>>)
    /\ up_pc' = "running"
    /\ idx' = 0
    /\ pair_des' = NoPair
    /\ log' = <<>>
    /\ UNCHANGED <<apikey, headers>>
    /\ UNCHANGED keyVars
    /\ UNCHANGED notUp

\* One pass of the for loop of add_data_element: upload, then the write of
\* de["id"], which raises TypeError when upload returned None.
AddFile ==
    /\ up_pc = "running"
    /\ cmd.entry = "add_data_element"
    /\ idx < Len(cmd.first)
    /\ \E statuses \in [1..3 -> Statuses] :
         LET u == upload(cmd.first[idx + 1], cmd.project, statuses, NextId(log), headers)
         IN  /\ log' = log \o u.reqs
             /\ headers' = u.headers
             /\ IF u.raises = "none" /\ u.de # <<>>
                THEN up_pc' = "running" /\ idx' = idx + 1
                ELSE up_pc' = "raised" /\ idx' = idx
    /\ UNCHANGED <<apikey, cmd, pair_des>>
    /\ Failures(log') <= MaxFailures
    /\ UNCHANGED keyVars
    /\ UNCHANGED notUp

\* get_user, then create_project: the part of handle_reads for
\* args.project == "new".  get_user raises RuntimeError on a failure;
\* create_project returns None on one, and project["id"] raises TypeError.
CreateNewProject(statuses, self_headers) ==
    LET user == Request("get_user", statuses[1], self_headers)
        create == [Request("create_project", statuses[2], self_headers)
                      EXCEPT !.permissions =
                                 <<<<[user |-> CallingUser, permission |-> <<"manage">>]>>>>]
    IN  IF statuses[1] # 200 THEN [reqs |-> <<user>>, raises |-> "RuntimeError"]
        ELSE IF statuses[2] # 200 THEN [reqs |-> <<user, create>>, raises |-> "TypeError"]
        ELSE [reqs |-> <<user, create>>, raises |-> "none"]

\* handle_reads up to its for loops: the project is created first when
\* args.project is "new"; then the unpaired loop, the paired loop, or the
\* message that the lists must be of equal length.
handle_reads ==
    /\ UpFree
    /\ \E n \in 1..MaxFiles, m \in 0..MaxFiles, project \in {<<"new">>, <<"P">>},
          code \in OrientationCodes, interleaved \in BOOLEAN,
          statuses \in [1..2 -> Statuses] :
         LET made == IF project = <<"new">> THEN CreateNewProject(statuses, headers)
                     ELSE [reqs |-> <<>>, raises |-> "none"]
             target == IF project = <<"new">> /\ made.raises = "none"
                       THEN <<NewProject>> ELSE project
         IN  /\ cmd' = Cmd("handle_reads", FileList(1, n), FileList(2, m), target,
                           code, interleaved, <<>>)
             /\ log' = made.reqs
             /\ up_pc' = IF made.raises # "none" THEN "raised"
                         ELSE IF m = 0 \/ m = n THEN "running"
                         ELSE "done"
    /\ idx' = 0
    /\ pair_des' = NoPair
    /\ UNCHANGED <<apikey, headers>>
    /\ Failures(log') <= MaxFailures
    /\ UNCHANGED keyVars
    /\ UNCHANGED notUp

\* update_data_element(element): the PUT of the whole element.
update_data_element(id, status, metadata, self_headers) ==
    [Request("update_data_element", status, self_headers)
        EXCEPT !.de = <<id>>, !.orientation = metadata.orientation,
               !.pair = metadata.pair, !.interleaved = metadata.interleaved]

\* One pass of the loop over args.first when there is no args.second.
SingleRead ==
    /\ up_pc = "running"
    /\ cmd.entry = "handle_reads"
    /\ cmd.second = <<>>
    /\ idx < Len(cmd.first)
    /\ \E statuses \in [1..6 -> Statuses] :
         LET u == upload(cmd.first[idx + 1], cmd.project, statuses, NextId(log), headers)
             get == [Request("get_data_element", statuses[4], u.headers) EXCEPT !.de = u.de]
             metadata ==
                 [interleaved |-> <<cmd.interleaved>>,
                  orientation |-> IF cmd.interleaved
                                  THEN <<orientation(cmd.orientation)>>
                                  ELSE <<orientation(<<cmd.orientation[1]>>)>>,
                  pair |-> <<>>]
             put == update_data_element(u.de[1], statuses[5], metadata, u.headers)
             detect == [Request("detect_read_metadata", statuses[6], u.headers)
                           EXCEPT !.de = u.de]
         IN  /\ headers' = u.headers
             /\ IF u.raises # "none" \/ u.de = <<>>
                THEN /\ log' = log \o u.reqs
                     /\ up_pc' = "raised" /\ idx' = idx
                ELSE IF statuses[4] # 200
                THEN /\ log' = log \o u.reqs \o <<get>>
                     /\ up_pc' = "raised" /\ idx' = idx
                ELSE /\ log' = log \o u.reqs \o <<get, put, detect>>
                     /\ up_pc' = "running" /\ idx' = idx + 1
    /\ UNCHANGED <<apikey, cmd, pair_des>>
    /\ Failures(log') <= MaxFailures
    /\ UNCHANGED keyVars
    /\ UNCHANGED notUp

\* The two calls of upload of one pass of the paired loop.
PairUpload ==
    /\ up_pc = "running"
    /\ cmd.entry = "handle_reads"
    /\ cmd.second # <<>>
    /\ idx < Len(cmd.first)
    /\ \E statuses \in [1..6 -> Statuses] :
         LET u1 == upload(cmd.first[idx + 1], cmd.project, statuses, NextId(log), headers)
             later == [i \in 1..3 |-> statuses[i + 3]]
             u2 == upload(cmd.second[idx + 1], cmd.project, later,
                          NextId(log \o u1.reqs), u1.headers)
         IN  IF u1.raises # "none"
             THEN /\ log' = log \o u1.reqs
                  /\ headers' = u1.headers
                  /\ up_pc' = "raised" /\ pair_des' = NoPair
             ELSE /\ log' = log \o u1.reqs \o u2.reqs
                  /\ headers' = u2.headers
                  /\ IF u2.raises # "none"
                     THEN up_pc' = "raised" /\ pair_des' = NoPair
                     ELSE up_pc' = "linking" /\ pair_des' = <<u1.de, u2.de>>
    /\ UNCHANGED <<apikey, cmd, idx>>
    /\ Failures(log') <= MaxFailures
    /\ UNCHANGED keyVars
    /\ UNCHANGED notUp

\* PairMetadata with the second read given its own id as its pair.
PairMetadataSelfPaired(p1_id, p2_id, code) ==
    <<[interleaved |-> <<>>, pair |-> <<p2_id>>,
       orientation |-> <<orientation(<<code[1]>>)>>],
      [interleaved |-> <<>>, pair |-> <<p2_id>>,
       orientation |-> <<orientation(<<code[2]>>)>>]>>

\* The metadata the pass sets on p1_de and on p2_de: the orientation of the
\* letter of args.orientation and, as pair, the id of the other read.
PairMetadata(p1_id, p2_id, code) ==
    <<[interleaved |-> <<>>, pair |-> <<p2_id>>,
       orientation |-> <<orientation(<<code[1]>>)>>],
      [interleaved |-> <<>>, pair |-> <<p1_id>>,
       orientation |-> <<orientation(<<code[2]>>)>>]>>

\* The rest of the pass: both data elements are fetched (p1_de["id"] and
\* p2_de["id"] raise TypeError for None, get_data_element raises
\* RuntimeError), each gets its orientation and the id of the other as its
\* pair, and both are updated.
PairLink ==
    /\ up_pc = "linking"
    /\ \E statuses \in [1..5 -> Statuses] :
         LET p1_de == pair_des[1]
             p2_de == pair_des[2]
             get1 == [Request("get_data_element", statuses[1], headers) EXCEPT !.de = p1_de]
             get2 == [Request("get_data_element", statuses[2], headers) EXCEPT !.de = p2_de]
             metadata == PairMetadata(p1_de[1], p2_de[1], cmd.orientation)
             put1 == update_data_element(p1_de[1], statuses[3], metadata[1], headers)
             put2 == update_data_element(p2_de[1], statuses[4], metadata[2], headers)
             detect == [Request("detect_read_metadata", statuses[5], headers)
                           EXCEPT !.de = p1_de \o p2_de]
         IN  IF p1_de = <<>>
             THEN log' = log /\ up_pc' = "raised" /\ idx' = idx
             ELSE IF statuses[1] # 200 \/ p2_de = <<>>
             THEN log' = log \o <<get1>> /\ up_pc' = "raised" /\ idx' = idx
             ELSE IF statuses[2] # 200
             THEN log' = log \o <<get1, get2>> /\ up_pc' = "raised" /\ idx' = idx
             ELSE /\ log' = log \o <<get1, get2, put1, put2, detect>>
                  /\ up_pc' = "running" /\ idx' = idx + 1
    /\ pair_des' = NoPair
    /\ UNCHANGED <<apikey, headers, cmd>>
    /\ Failures(log') <= MaxFailures
    /\ UNCHANGED keyVars
    /\ UNCHANGED notUp

\* The for loop of the command has no file left: the command returns.
UploadReturn ==
    /\ up_pc = "running"
    /\ idx = Len(cmd.first)
    /\ up_pc' = "done"
    /\ UNCHANGED <<apikey, headers, cmd, idx, pair_des, log>>
    /\ UNCHANGED keyVars
    /\ UNCHANGED notUp

UpNext ==
    add_data_element \/ AddFile \/ handle_reads \/ SingleRead \/ PairUpload
        \/ PairLink \/ UploadReturn

---------------------------------------------------------------------------
\* `project create`.  A string of the command line is the sequence of its
\* pieces, ":" being a piece of its own.

\* Permission arguments on one command line, at most.
MaxPermissions == 2

\* str.lower() on a piece.
Lower(piece) ==
    CASE piece = "ANN@X" -> "ann@x"
      [] piece = "Ann@X" -> "ann@x"
      [] piece = "MANAGE" -> "manage"
      [] piece = "FASTQ.GZ" -> "fastq.gz"
      [] piece = "Fastq.gz" -> "fastq.gz"
      [] OTHER -> piece

lower(string) == [i \in DOMAIN string |-> Lower(string[i])]

\* string.split(":"): the pieces between the colons, an empty one where two
\* colons meet or the string ends in one.
RECURSIVE split(_)
split(string) ==
    IF \A i \in DOMAIN string : string[i] # ":" THEN <<string>>
    ELSE LET at == CHOOSE i \in DOMAIN string :
                       string[i] = ":" /\ \A j \in 1..(i - 1) : string[j] # ":"
         IN  <<SubSeq(string, 1, at - 1)>> \o split(SubSeq(string, at + 1, Len(string)))

\* The users the server knows: r.json()["users"].
Users ==
    <<[email_address |-> <<"Ann@X">>, id |-> "u1"],
      [email_address |-> <<"bob@x">>, id |-> "u2"]>>

\* users_dict[u['email_address'].lower()] = u['id']
UsersDict(users) ==
    [email \in {lower(users[i].email_address) : i \in DOMAIN users} |->
        users[CHOOSE i \in DOMAIN users :
                 /\ lower(users[i].email_address) = email
                 /\ \A j \in DOMAIN users :
                       lower(users[j].email_address) = email => j <= i].id]

Permission(user, permission) == [user |-> user, permission |-> permission]

\* ParsePermission without the test of the name of the permission.
ParsePermissionAnyName(p, users_dict) ==
    IF \A i \in DOMAIN p : p[i] # ":" THEN [exit |-> TRUE, entry |-> <<>>]
    ELSE LET parts == split(lower(p))
         IN  IF parts[1] \notin DOMAIN users_dict THEN [exit |-> TRUE, entry |-> <<>>]
             ELSE [exit |-> FALSE,
                   entry |-> <<[user |-> users_dict[parts[1]], permission |-> parts[2]]>>]

\* The body of the loop over args.permissions for one argument: exit(1), or
\* the entry appended to permissions.
ParsePermission(p, users_dict) ==
    IF \A i \in DOMAIN p : p[i] # ":" THEN [exit |-> TRUE, entry |-> <<>>]
    ELSE LET parts == split(lower(p))
         IN  IF parts[1] \notin DOMAIN users_dict THEN [exit |-> TRUE, entry |-> <<>>]
             ELSE IF parts[2] \notin {<<"manage">>, <<"write">>, <<"read">>}
             THEN [exit |-> TRUE, entry |-> <<>>]
             ELSE [exit |-> FALSE, entry |-> <<Permission(users_dict[parts[1]], parts[2])>>]

\* The loop over args.permissions: it stops at the first exit(1).
RECURSIVE ParsePermissions(_, _)
ParsePermissions(permissions, users_dict) ==
    IF permissions = <<>> THEN [exit |-> FALSE, entries |-> <<>>]
    ELSE LET first == ParsePermission(Head(permissions), users_dict)
             rest == ParsePermissions(Tail(permissions), users_dict)
         IN  IF first.exit \/ rest.exit THEN [exit |-> TRUE, entries |-> <<>>]
             ELSE [exit |-> FALSE, entries |-> first.entry \o rest.entries]

\* create_project_from_cmdline(args): the requests it sends and how the
\* process ends.  get_users and get_user raise RuntimeError on a failure.
create_project_from_cmdline(permissions, statuses, self_headers) ==
    LET users == Request("get_users", statuses[1], self_headers)
        user == Request("get_user", statuses[2], self_headers)
        create(perms) == [Request("create_project", statuses[3], self_headers)
                             EXCEPT !.permissions = perms]
        parsed == ParsePermissions(permissions, UsersDict(Users))
    IN  IF Len(permissions) = 0
        THEN [reqs |-> <<create(<<>>)>>, end |-> "done"]
        ELSE IF statuses[1] # 200 THEN [reqs |-> <<users>>, end |-> "raised"]
        ELSE IF parsed.exit THEN [reqs |-> <<users>>, end |-> "exit1"]
        ELSE IF statuses[2] # 200 THEN [reqs |-> <<users, user>>, end |-> "raised"]
        ELSE [reqs |-> <<users, user,
                         create(<<parsed.entries
                                     \o <<Permission(CallingUser, <<"manage">>)>>>>)>>,
              end |-> "done"]

\* The values of --permissions tried: well-formed ones, in upper case, and
\* one for each way of being refused.
PermissionArgs ==
    {<<"ann@x", ":", "read">>, <<"ANN@X", ":", "MANAGE">>, <<"bob@x", ":", "write">>,
     <<"ann@x">>, <<"zed@x", ":", "read">>, <<"bob@x", ":", "admin">>,
     <<"bob@x", ":">>, <<"bob@x", ":", "read", ":", "x">>}

PermissionLists == UNION {[1..n -> PermissionArgs] : n \in 0..MaxPermissions}

\* The command `project create`, from the call of args.func(args) to the
\* end of the process.
project_create ==
    /\ UpFree
    /\ \E permissions \in PermissionLists, statuses \in [1..3 -> Statuses] :
         LET r == create_project_from_cmdline(permissions, statuses, headers)
         IN  /\ cmd' = Cmd("create_project_from_cmdline", <<>>, <<>>, <<>>, <<"f", "r">>,
                           FALSE, permissions)
             /\ log' = r.reqs
             /\ up_pc' = r.end
    /\ UNCHANGED <<apikey, headers, idx, pair_des>>
    /\ UNCHANGED keyVars
    /\ UNCHANGED notUp

---------------------------------------------------------------------------
\* The resolution of the API key in __main__.  A key, like the content of
\* the dotfile, is a string: the sequence of its pieces, white space being
\* pieces of their own; <<>> is the empty string.

\* Runs of the program followed, at most.
MaxRuns == 3

WhiteSpace == {" ", "\n"}

\* str.rstrip()
RECURSIVE rstrip(_)
rstrip(string) ==
    IF string # <<>> /\ string[Len(string)] \in WhiteSpace
    THEN rstrip(SubSeq(string, 1, Len(string) - 1))
    ELSE string

\* What one run resolves: the key, whether input() was called, and the
\* dotfile afterwards.  An environment variable and a dotfile are optional:
\* <<>> when absent, <<string>> when present.
Resolved(key, asked, file) == [apikey |-> key, prompted |-> asked, dotfile |-> file]

\* ResolveKey with the dotfile looked at before the environment.
ResolveKeyDotfileFirst(environ, file, home_exists, text) ==
    IF file # <<>> THEN Resolved(rstrip(file[1]), FALSE, file)
    ELSE IF environ # <<>> THEN Resolved(environ[1], FALSE, file)
    ELSE Resolved(text, TRUE, IF home_exists THEN <<text>> ELSE file)

\* The if/elif/else of __main__: ERGO_API_KEY of the environment, else
\* ~/.ergo_api_key read and stripped on the right, else the text typed at
\* the prompt, which is written to ~/.ergo_api_key when ~ exists.
ResolveKey(environ, file, home_exists, text) ==
    IF environ # <<>> THEN Resolved(environ[1], FALSE, file)
    ELSE IF file # <<>> THEN Resolved(rstrip(file[1]), FALSE, file)
    ELSE Resolved(text, TRUE, IF home_exists THEN <<text>> ELSE file)

\* What is typed at the prompt, and what ERGO_API_KEY is set to.
Typed == {<<"k1">>, <<"k2", " ">>, <<>>}
Exported == {<<"k3">>, <<>>}

\* One run of the program up to the constructor: the key is resolved and
\* ERGO(apikey) builds the client.
main ==
    /\ runs < MaxRuns
    /\ \E text \in Typed :
         LET r == ResolveKey(env_key, dotfile, home, text)
         IN  /\ apikey' = r.apikey
             /\ prompted' = r.prompted
             /\ dotfile' = r.dotfile
             /\ headers' = ERGO_init(r.apikey)
    /\ runs' = runs + 1
    /\ up_pc' = "idle"
    /\ cmd' = NoCmd
    /\ idx' = 0
    /\ pair_des' = NoPair
    /\ log' = <<>>
    /\ UNCHANGED <<env_key, home>>
    /\ UNCHANGED notUp

\* Between two runs the user sets ERGO_API_KEY.
export ==
    /\ \E value \in Exported : env_key' = <<value>>
    /\ env_key' # env_key
    /\ UNCHANGED <<dotfile, home, prompted, runs>>
    /\ UNCHANGED upVars
    /\ UNCHANGED notUp

\* Between two runs the user unsets ERGO_API_KEY.
unset ==
    /\ env_key # <<>>
    /\ env_key' = <<>>
    /\ UNCHANGED <<dotfile, home, prompted, runs>>
    /\ UNCHANGED upVars
    /\ UNCHANGED notUp

KeyNext == main \/ export \/ unset

\* The environment of a client that was built from ERGO_API_KEY.
KeyFixed ==
    /\ env_key = <<apikey>>
    /\ dotfile = <<>>
    /\ home = TRUE
    /\ prompted = FALSE
    /\ runs = 1

\* Before the first run: any environment, a dotfile (as an editor leaves it,
\* with a newline at its end) only in a home directory that exists.
KeyInit ==
    /\ env_key \in {<<>>} \cup {<<value>> : value \in Exported}
    /\ dotfile \in {<<>>, <<<<"k1", "\n">>>>}
    /\ home \in BOOLEAN
    /\ dotfile # <<>> => home
    /\ prompted = FALSE
    /\ runs = 0
    /\ apikey = <<>>
    /\ headers = {}
    /\ up_pc = "idle"
    /\ cmd = NoCmd
    /\ idx = 0
    /\ pair_des = NoPair
    /\ log = <<>>

---------------------------------------------------------------------------
\* The progress bars of upload and of download_data_element, one callback or
\* one block at a time.

\* Longest file transferred with a progress bar.
MaxTransfer == 4
\* BLOCK_SIZE (10240 in the source), scaled down.
BLOCK_SIZE == 2
\* Bytes the multipart encoding adds to the file (boundaries, part headers).
Envelope == 1

\* tqdm(total=..., disable=...): a bar at position 0.
tqdm(total, disable) == [n |-> 0, total |-> total, disable |-> disable]

\* tqdm.update(delta): self.n += delta, and nothing at all for a bar that is
\* disabled.
tqdm_update(bar, delta) ==
    IF bar.disable THEN bar ELSE [bar EXCEPT !.n = bar.n + delta]

\* update_to with n taken for the delta.
update_to_delta(bar, n) == tqdm_update(bar, n)

\* ProgressBar.update_to(n): self.update(n - self.n)
update_to(bar, n) == tqdm_update(bar, n - bar.n)

NoBar == tqdm(0, FALSE)

PbInit ==
    /\ io_pc = "idle"
    /\ pbar = NoBar
    /\ stream = <<>>
    /\ bytes_read = 0
    /\ out = <<>>

PbFree == io_pc \in {"idle", "closed"}

\* upload up to the POST: the bar, disabled by silent, and the monitor over
\* the multipart body, nothing of which is read yet.
OpenUpload ==
    /\ PbFree
    /\ \E data \in ByteStrings(MaxTransfer), silent \in BOOLEAN :
         /\ pbar' = tqdm(Len(data), silent)
         /\ stream' = data \o [i \in 1..Envelope |-> 0]
    /\ io_pc' = "uploading"
    /\ bytes_read' = 0
    /\ out' = <<>>
    /\ UNCHANGED notPb

\* requests reads the next piece of the body: the monitor adds its length to
\* bytes_read and calls callback(monitor), that is pbar.update_to(m.bytes_read).
UploadCallback ==
    /\ io_pc = "uploading"
    /\ bytes_read < Len(stream)
    /\ \E k \in 1..Min(BLOCK_SIZE, Len(stream) - bytes_read) :
         /\ bytes_read' = bytes_read + k
         /\ pbar' = update_to(pbar, bytes_read + k)
    /\ UNCHANGED <<io_pc, stream, out>>
    /\ UNCHANGED notPb

\* The body is read to its end: the POST returns and pbar.close() is called.
CloseUpload ==
    /\ io_pc = "uploading"
    /\ bytes_read = Len(stream)
    /\ io_pc' = "closed"
    /\ UNCHANGED <<pbar, stream, bytes_read, out>>
    /\ UNCHANGED notPb

\* download_data_element after a 200: the bar over de["size"] bytes and the
\* local file opened with "wb".
OpenDownload ==
    /\ PbFree
    /\ \E data \in ByteStrings(MaxTransfer) :
         /\ pbar' = tqdm(Len(data), FALSE)
         /\ stream' = data
    /\ io_pc' = "downloading"
    /\ bytes_read' = 0
    /\ out' = <<>>
    /\ UNCHANGED notPb

\* One pass of the loop over r.iter_content(BLOCK_SIZE): a block of at most
\* BLOCK_SIZE bytes is written and progress.update(len(data)) is called.
WriteBlock ==
    /\ io_pc = "downloading"
    /\ Len(out) < Len(stream)
    /\ \E k \in 1..Min(BLOCK_SIZE, Len(stream) - Len(out)) :
         LET data == SubSeq(stream, Len(out) + 1, Len(out) + k)
         IN  /\ out' = out \o data
             /\ pbar' = tqdm_update(pbar, Len(data))
    /\ UNCHANGED <<io_pc, stream, bytes_read>>
    /\ UNCHANGED notPb

\* The answer is exhausted: the file is closed and progress.close() is called.
CloseDownload ==
    /\ io_pc = "downloading"
    /\ Len(out) = Len(stream)
    /\ io_pc' = "closed"
    /\ UNCHANGED <<pbar, stream, bytes_read, out>>
    /\ UNCHANGED notPb

PbNext ==
    OpenUpload \/ UploadCallback \/ CloseUpload \/ OpenDownload \/ WriteBlock
        \/ CloseDownload

---------------------------------------------------------------------------
\* The update of a workflow's inputs: get_workflow, save_workflow,
\* update_workflow.

\* Ids after -f on one command line, at most.
MaxInputs == 3

\* A run as the server returns it; its inputs are dicts with one key.
Run(id, ids) ==
    [id |-> id,
     definition |-> [inputs |-> [k \in DOMAIN ids |-> [data_element_id |-> ids[k]]]]]

\* A request of update_workflow; inputs is the definition.inputs of the
\* body of a PUT, and empty for a GET.
WfRequest(op, id, status, inputs) ==
    [op |-> op, id |-> id, status |-> status, inputs |-> inputs]

\* get_workflow: r.json()['run'] when the status is 200; otherwise
\* check_status has written the error and the function returns None.
get_workflow(wid, status) ==
    IF status = 200 THEN <<pipelines[wid]>> ELSE <<>>

\* save_workflow: the PUT of the workflow; RuntimeError when the status is
\* not 200.  The server stores what a PUT answered 200 carried.
save_workflow(workflow, status) ==
    [request |-> WfRequest("save_workflow", workflow.id, status,
                           workflow.definition.inputs),
     raises |-> status # 200,
     pipelines |-> IF status = 200
                   THEN [pipelines EXCEPT ![workflow.id] = workflow]
                   ELSE pipelines]

\* elements[i] = e on the keys of the dict: a new key goes to the end, a key
\* already there keeps its place.
SetItem(keys, i) ==
    IF \E k \in DOMAIN keys : keys[k] = i THEN keys ELSE Append(keys, i)

\* The body of the try of one pass of the for loop, once get_data_element
\* has returned e: the element is kept, or not, or e["metadata"] has no
\* key "orientation" and the subscript raises KeyError.
Keep(keys, i, e) ==
    IF Lower(e.type.extension) = "fastq.gz"
    THEN IF e.metadata.orientation = <<>>
         THEN [raises |-> TRUE, keys |-> keys]
         ELSE IF e.metadata.orientation = <<"forward">>
              THEN [raises |-> FALSE, keys |-> SetItem(keys, i)]
              ELSE [raises |-> FALSE, keys |-> keys]
    ELSE [raises |-> FALSE, keys |-> keys]

\* One process runs one command.
WfFree == wf_pc = "idle"

\* The lists of ids a command line can carry after -f (nargs="+").
InputLists ==
    UNION {[1..n -> DOMAIN remote] : n \in 1..MaxInputs}

\* `workflows update -i ID [-f ID ...]`: elements = {} and the for loop is
\* entered.  -f is not required: without it args.inputs is None and the
\* for statement raises TypeError.
update_workflow ==
    /\ WfFree
    /\ \E wid \in DOMAIN pipelines, given \in BOOLEAN, inputs \in InputLists :
         /\ given \/ Len(inputs) = 1
         /\ wf_args' = [id |-> wid, given |-> given,
                        inputs |-> IF given THEN inputs ELSE <<>>]
         /\ wf_pc' = IF given THEN "collecting" ELSE "raised"
    /\ wf_i' = 0
    /\ elements' = <<>>
    /\ UNCHANGED <<remote, pipelines, wf_log, err>>
    /\ UNCHANGED notWf

\* One pass of the for loop of update_workflow.
CollectInput ==
    /\ wf_pc = "collecting"
    /\ wf_i < Len(wf_args.inputs)
    /\ \E status \in Statuses :
         LET i == wf_args.inputs[wf_i + 1]
             got == get_data_element(i, status)
             kept == Keep(elements, i, got.de[1])
         IN  /\ wf_log' = Append(wf_log, WfRequest("get_data_element", i, status, <<>>))
             /\ IF got.raises
                THEN /\ err' = Append(err, <<"Couldn't find Data element", i>>)
                     /\ UNCHANGED <<elements, wf_pc>>
                ELSE /\ elements' = kept.keys
                     /\ wf_pc' = IF kept.raises THEN "raised" ELSE wf_pc
                     /\ UNCHANGED err
    /\ wf_i' = wf_i + 1
    /\ UNCHANGED <<remote, pipelines, wf_args>>
    /\ UNCHANGED notWf

\* After the for loop: the workflow is fetched and, when it was found, saved
\* with its inputs replaced.
SaveInputs ==
    /\ wf_pc = "collecting"
    /\ wf_i = Len(wf_args.inputs)
    /\ \E get_status \in Statuses, put_status \in Statuses :
         LET w == get_workflow(wf_args.id, get_status)
             get == WfRequest("get_workflow", wf_args.id, get_status, <<>>)
         IN  IF w # <<>>
             THEN LET saved == save_workflow(Run(w[1].id, elements), put_status)
                  IN  /\ wf_log' = wf_log \o <<get, saved.request>>
                      /\ pipelines' = saved.pipelines
                      /\ err' = IF saved.raises
                                THEN Append(err, <<"Couldn't save workflow", wf_args.id>>)
                                ELSE err
             ELSE /\ put_status = 200
                  /\ wf_log' = Append(wf_log, get)
                  /\ err' = Append(err, <<"Couldn't find workflow", wf_args.id>>)
                  /\ UNCHANGED pipelines
    /\ wf_pc' = "done"
    /\ UNCHANGED <<remote, wf_args, wf_i, elements>>
    /\ UNCHANGED notWf

WfNext == update_workflow \/ CollectInput \/ SaveInputs

\* No workflow command in this process.
WfInit ==
    /\ pipelines = [w \in {"w1"} |-> Run("w1", <<>>)]
    /\ wf_pc = "idle"
    /\ wf_args = [id |-> "w1", given |-> TRUE, inputs |-> <<>>]
    /\ wf_i = 0
    /\ elements = <<>>
    /\ wf_log = <<>>
    /\ err = <<>>

---------------------------------------------------------------------------
\* The server and the directory the commands start from.

\* The checksum the server records for a data element: for "etag" always
\* the chunked form of the part size, otherwise the digest of the algorithm.
Recorded(algorithm, content) ==
    IF algorithm = "etag"
    THEN calculate_s3_etag(content, DEFAULT_MIN_PART_SIZE, TRUE)
    ELSE Checksum(FALSE, openssl(algorithm, content), <<>>)

Element(id, name, extension, sample_name, orientation_, algorithm, content) ==
    DataElement(id, name, extension, sample_name, orientation_, algorithm,
                Recorded(algorithm, content), content)

\* Two data elements: d1, a forward read of sample S whose name is either
\* a.fq or its own id-based name, and d2, a text file without sample name
\* that is also called a.fq.
Catalogs ==
    {[d \in {"d1", "d2"} |->
        IF d = "d1"
        THEN Element("d1", name, "fq", <<"S">>, <<"forward">>, "md5", <<0, 1, 1>>)
        ELSE Element("d2", <<"a", ".", "fq">>, "txt", <<>>, <<>>, "etag", <<1>>)] :
     name \in {<<"a", ".", "fq">>, <<"d1", ".", "fq">>}}

\* The names a download of an element of the catalogue can give a file.
NamesOf(catalog) ==
    {sanitize(IdName(d, catalog[d])) : d \in DOMAIN catalog}
    \cup {sanitize(ResolveName(catalog[d], d, rename).name) :
             d \in DOMAIN catalog, rename \in Renames}

\* The directory holds nothing, or one file left by somebody else.
InitialDirs(catalog) ==
    {EmptyDir} \cup {WriteFile(EmptyDir, name, <<0>>) : name \in NamesOf(catalog)}

DlInit(catalogs) ==
    /\ remote \in catalogs
    /\ fs \in InitialDirs(remote)
    /\ proc = "idle"
    /\ batch = Batch("none", <<>>, "ergo_id")
    /\ queue = <<>>
    /\ attempted = <<>>
    /\ last = NoCall

DlNext ==
    project_download \/ download_workflow \/ files_download \/ DownloadItem
        \/ BatchReturn

\* One data element d1, over every combination of name, extension, sample
\* name and orientation that the naming distinguishes.
NamingCatalogs ==
    {[d \in {"d1"} |-> Element("d1", name, extension, sample_name, orientation_, "etag", <<0, 1, 1>>)] :
     name \in {<<"a", ".", "fq">>, <<"a", "/", "b", "?", ".", "fq">>},
     extension \in {"fq", "fastq.gz"},
     sample_name \in {<<>>, <<"S">>, <<"T">>},
     orientation_ \in {<<>>, <<"forward">>, <<"reverse">>, <<"unknown">>, <<"Forward">>}}

Init ==
    CkInit /\ DlInit(Catalogs) /\ UpInit({<<"k1">>}) /\ KeyFixed /\ PbInit /\ WfInit

Next == DlNext

Spec == Init /\ [][Next]_vars

\* The same commands against a server that holds one data element of any
\* naming.
InitNaming ==
    /\ CkInit /\ DlInit(NamingCatalogs) /\ UpInit({<<"k1">>}) /\ KeyFixed /\ PbInit
    /\ WfInit

SpecNaming == InitNaming /\ [][DlNext]_vars

\* The checksum engine alone.
CkNext == CallCalculateS3Etag \/ CallChecksumFile \/ ReadChunk \/ ReturnEtag \/ CallEnds

InitEtag ==
    /\ CkInit
    /\ remote = [d \in {} |-> <<>>]
    /\ fs = EmptyDir
    /\ proc = "idle"
    /\ batch = Batch("none", <<>>, "ergo_id")
    /\ queue = <<>>
    /\ attempted = <<>>
    /\ last = NoCall
    /\ UpInit({<<"k1">>}) /\ KeyFixed /\ PbInit /\ WfInit

SpecEtag == InitEtag /\ [][CkNext]_vars

\* The commands that upload, against a client built with any key.
InitUpload ==
    /\ CkInit
    /\ remote = [d \in {} |-> <<>>]
    /\ fs = EmptyDir
    /\ proc = "idle"
    /\ batch = Batch("none", <<>>, "ergo_id")
    /\ queue = <<>>
    /\ attempted = <<>>
    /\ last = NoCall
    /\ UpInit(Keys)
    /\ KeyFixed
    /\ PbInit
    /\ WfInit

SpecUpload == InitUpload /\ [][UpNext]_vars

\* The command that creates a project.
SpecCreate == InitUpload /\ [][project_create]_vars

\* The runs of the program in a changing environment.
InitKey ==
    /\ CkInit
    /\ remote = [d \in {} |-> <<>>]
    /\ fs = EmptyDir
    /\ proc = "idle"
    /\ batch = Batch("none", <<>>, "ergo_id")
    /\ queue = <<>>
    /\ attempted = <<>>
    /\ last = NoCall
    /\ KeyInit
    /\ PbInit
    /\ WfInit

SpecKey == InitKey /\ [][KeyNext]_vars

\* The transfers with a progress bar.
SpecProgress == InitEtag /\ [][PbNext]_vars

\* The data elements update_workflow is asked to add: forward reads with
\* the extension in lower and in upper case, a reverse read, a forward
\* element of another type, and a read whose metadata has no orientation
\* (add_data_element records none, and download_data_element tests for the
\* key before it reads it).
WorkflowCatalog ==
    [d \in {"d1", "d2", "d3", "d4", "d5"} |->
        CASE d = "d1" -> Element("d1", <<"a", ".", "fq">>, "fastq.gz", <<"S">>, <<"forward">>, "md5", <<1>>)
          [] d = "d2" -> Element("d2", <<"a", ".", "fq">>, "FASTQ.GZ", <<"S">>, <<"forward">>, "md5", <<1>>)
          [] d = "d3" -> Element("d3", <<"a", ".", "fq">>, "fastq.gz", <<"S">>, <<"reverse">>, "md5", <<1>>)
          [] d = "d4" -> Element("d4", <<"a", ".", "fq">>, "txt", <<>>, <<"forward">>, "md5", <<1>>)
          [] d = "d5" -> Element("d5", <<"a", ".", "fq">>, "fastq.gz", <<>>, <<>>, "md5", <<1>>)]

\* The command that updates a workflow, which has no input or one already.
InitWorkflow ==
    /\ CkInit
    /\ remote = WorkflowCatalog
    /\ fs = EmptyDir
    /\ proc = "idle"
    /\ batch = Batch("none", <<>>, "ergo_id")
    /\ queue = <<>>
    /\ attempted = <<>>
    /\ last = NoCall
    /\ UpInit({<<"k1">>}) /\ KeyFixed /\ PbInit
    /\ pipelines \in {[w \in {"w1"} |-> Run("w1", ids)] : ids \in {<<>>, <<"d3">>}}
    /\ wf_pc = "idle"
    /\ wf_args = [id |-> "w1", given |-> TRUE, inputs |-> <<>>]
    /\ wf_i = 0
    /\ elements = <<>>
    /\ wf_log = <<>>
    /\ err = <<>>

SpecWorkflow == InitWorkflow /\ [][WfNext]_vars

---------------------------------------------------------------------------
\* Properties of download_data_element and of the batch downloads.

\* A step that is one call of download_data_element, for the item `did`.
DownloadStep ==
    /\ proc = "running"
    /\ queue # <<>>
    /\ attempted' = Append(attempted, Head(queue))

\* The call of the step got the data element and a name for it.
Named(call) == call.at \notin {"none", "get_data_element", "orientation"}

\* The call sent the download request.
Requested(call) == call.requests = <<"metadata", "download">>

\* The bytes of the data element d have the checksum the server records.
RemoteMatches(d) ==
    checksum_file(File(remote[d].content), remote[d].metadata.checksum.algorithm, TRUE)
        = remote[d].metadata.checksum.value

\* C1: a call of download_data_element that follows a call for the same data
\* element and naming which downloaded it (the bytes written matching the
\* checksum of the server) ends as Skipped: no download request, no byte
\* written, a normal return with the directory as it was.
C1_SecondDownloadIsSkipped ==
    [][(/\ DownloadStep
        /\ last.outcome = "Downloaded"
        /\ last.did = Head(queue)
        /\ last.rename = batch.rename
        /\ RemoteMatches(Head(queue))
        /\ last'.at # "get_data_element")
       => (/\ last'.outcome = "Skipped"
           /\ ~Requested(last')
           /\ last'.written = 0
           /\ fs' = fs
           /\ proc' = "running")]_vars

\* C2: a call whose download request is answered with a status other than
\* 200 does not return normally, and renames no file.
C2_Non200IsAnError ==
    (Requested(last) /\ last.dl_status # 200)
        => (last.outcome \notin Returns /\ ~last.renamed)

\* A call that failed with a remote error: the metadata request or the
\* download request was answered with a status other than 200.
RemoteError(call) ==
    \/ call.at = "get_data_element"
    \/ Requested(call) /\ call.dl_status # 200

\* C3: in a batch, an item that fails with a remote error does not end the
\* process (the loop goes on to the next item, so at the end every item was
\* attempted), and a name collision ends it at once with the later items
\* not attempted.
C3_BatchContinuesAfterRemoteError ==
    (attempted # <<>> /\ Len(attempted) < Len(batch.items)) =>
        /\ (RemoteError(last) /\ last.at # "collision")
               => (proc = "running" /\ attempted \o queue = batch.items)
        /\ last.at = "collision"
               => (proc = "exit1" /\ attempted \o Tail(queue) = batch.items)

\* C4: when the resolved name differs from the id-based name and a file
\* exists at the resolved name as the rename step is reached, the process
\* exits with code 1, that file keeps its bytes, and no file is renamed (no
\* file of the directory goes away).
C4_CollisionNeverOverwrites ==
    [][(/\ DownloadStep
        /\ Requested(last')
        /\ last'.new_name # last'.local_name
        /\ exists(fs, last'.new_name))
       => (/\ proc' = "exit1"
           /\ last'.outcome = "Exit1"
           /\ ~last'.renamed
           /\ exists(fs', last'.new_name)
           /\ fs'[last'.new_name] = fs[last'.new_name]
           /\ DOMAIN fs \subseteq DOMAIN fs'
           /\ queue' = queue)]_vars

C4_Witness ==
    /\ proc = "exit1"
    /\ last.at = "collision"
    /\ last.dl_status = 200
    /\ exists(fs, last.local_name)
    /\ fs[last.new_name] # fs[last.local_name]

\* C5: when a file exists at the id-based path and its checksum, computed
\* with the algorithm of the checksum record of the server and
\* force_chunked_output = TRUE, equals the value of the record, the call
\* returns with no download request sent and the directory unchanged.
C5_SkipIfIdentical ==
    [][(/\ DownloadStep
        /\ last'.at \notin {"get_data_element", "orientation"}
        /\ LET d == Head(queue)
               path == sanitize(IdName(d, remote[d]))
           IN  /\ exists(fs, path)
               /\ checksum_file(File(fs[path]), remote[d].metadata.checksum.algorithm, TRUE)
                      = remote[d].metadata.checksum.value)
       => (/\ last'.outcome = "Skipped"
           /\ last'.requests = <<"metadata">>
           /\ last'.written = 0
           /\ ~last'.renamed
           /\ fs' = fs
           /\ proc' = "running"
           /\ queue' = Tail(queue))]_vars

C5_Witness ==
    /\ last.outcome = "Skipped"
    /\ last.did = "d2"
    /\ exists(fs, last.local_name)
    /\ fs[last.local_name] = remote["d2"].content

\* C17: a stale local copy is overwritten.  When a file exists at the
\* id-based path and its checksum differs from the value the server records,
\* the download request is sent; and when it is answered with 200 and there
\* is no name collision, the file at the resolved name holds the remote
\* content, no file is left at the id-based name when the two names differ,
\* and every other file is as it was.
C17_StaleCopyOverwritten ==
    [][(/\ DownloadStep
        /\ last'.at \notin {"get_data_element", "orientation"}
        /\ LET d == Head(queue)
               path == sanitize(IdName(d, remote[d]))
           IN  /\ exists(fs, path)
               /\ checksum_file(File(fs[path]), remote[d].metadata.checksum.algorithm, TRUE)
                      # remote[d].metadata.checksum.value)
       => LET d == Head(queue)
              local == last'.local_name
              new == last'.new_name
              collision == new # local /\ exists(fs, new)
          IN  /\ local = sanitize(IdName(d, remote[d]))
              /\ Requested(last')
              /\ (last'.dl_status = 200 /\ ~collision) =>
                    /\ last'.outcome = "Downloaded"
                    /\ exists(fs', new)
                    /\ fs'[new] = remote[d].content
                    /\ new # local => ~exists(fs', local)
                    /\ DOMAIN fs' = (DOMAIN fs \ {local}) \cup {new}
                    /\ \A n \in DOMAIN fs \ {local, new} : fs'[n] = fs[n]]_vars

\* A stale copy replaced and renamed.
C17_Witness ==
    /\ last.verdict = "mismatch"
    /\ last.outcome = "Downloaded"
    /\ last.renamed
    /\ last.new_name # last.local_name
    /\ fs[last.new_name] = remote[last.did].content
    /\ ~exists(fs, last.local_name)

\* C20: every download entry point reaches the download logic with a
\* naming strategy.  `files download -i ID`, like the two batch commands,
\* calls download_data_element for the element, which sends its requests
\* and names the file by the id, instead of failing before any request.
C20_EveryEntryPointDownloads ==
    (batch.entry = "files_download" /\ proc # "running") =>
        /\ attempted = batch.items
        /\ last.did = batch.items[1]
        /\ last.requests # <<>>
        /\ last.rename = "ergo_id"

---------------------------------------------------------------------------
\* Properties of the checksum engine.

EtagReturned == ck_pc = "returned" /\ ck_args.algorithm = "etag"

\* C6: for a file shorter than the chunk size, the empty file included,
\* calculate_s3_etag without force_chunked_output returns the single-part
\* form: the quoted MD5 of the whole file, with no "-n".
C6_SmallFileSinglePart ==
    (/\ EtagReturned
     /\ ~ck_args.force_chunked_output
     /\ Len(ck_args.file.data) < ck_args.chunk_size)
        => ck_result = Checksum(TRUE, md5(ck_args.file.data), <<>>)

\* The number of chunks of a file of `size` bytes: ceil(size / chunk_size).
CeilDiv(size, chunk_size) == (size + chunk_size - 1) \div chunk_size

\* The i-th chunk of the file, cut at the multiples of chunk_size.
ChunkAt(data, chunk_size, i) ==
    SubSeq(data, (i - 1) * chunk_size + 1, Min(i * chunk_size, Len(data)))

\* C7: with force_chunked_output, calculate_s3_etag returns the quoted MD5
\* of the joined MD5 digests of the chunks, in file order, followed by "-n",
\* where n = ceil(size / chunk_size) is the number of chunks read; every
\* chunk but the last has chunk_size bytes and the last is not empty.
C7_ForcedMultipartForm ==
    (EtagReturned /\ ck_args.force_chunked_output) =>
        LET data == ck_args.file.data
            size == ck_args.chunk_size
            n == CeilDiv(Len(data), size)
        IN  /\ ck_result = Checksum(TRUE, md5([i \in 1..n |-> md5(ChunkAt(data, size, i))]), <<n>>)
            /\ Len(chunks) = n
            /\ \A i \in 1..n : chunks[i] = ChunkAt(data, size, i)
            /\ \A i \in 1..(n - 1) : Len(chunks[i]) = size
            /\ n > 0 => Len(chunks[n]) \in 1..size

\* Three full chunks and a remainder shorter than the chunk size (the shape
\* of 25 MiB in chunks of 8 MiB).
C7_Witness ==
    /\ EtagReturned
    /\ ck_args.force_chunked_output
    /\ ck_args.chunk_size > 1
    /\ Len(ck_args.file.data) = 3 * ck_args.chunk_size + 1
    /\ Len(chunks) = 4
    /\ Len(chunks[4]) = 1
    /\ ck_result.suffix = <<4>>

\* C8: checksum_file raises NotImplementedError for an algorithm outside
\* the supported set and ValueError for a supported algorithm on a path
\* that is no file, in both cases with nothing read and nothing hashed; when
\* both hold it is NotImplementedError.
C8_ChecksumFileFailsFast ==
    ck_args.entry = "checksum_file" =>
        LET supported == ck_args.algorithm \in
                {"md5", "sha", "sha1", "md4", "md2", "mdc2", "sha224", "sha256",
                 "sha384", "sha512", "etag"}
            untouched == fp = 0 /\ md5s = <<>> /\ chunks = <<>>
        IN  /\ ~supported
               => (ck_pc = "raised" /\ ck_result = Raised("NotImplementedError") /\ untouched)
            /\ (supported /\ ~ck_args.file.isfile)
               => (ck_pc = "raised" /\ ck_result = Raised("ValueError") /\ untouched)

\* An unsupported algorithm on a path that is no file.
C8_Witness ==
    /\ ck_args.entry = "checksum_file"
    /\ ck_pc = "raised"
    /\ ck_args.algorithm = "crc32"
    /\ ~ck_args.file.isfile
    /\ ck_result.kind = "NotImplementedError"

---------------------------------------------------------------------------
\* Properties of the naming.

\* C9: under sample_name, for a data element with sample name S and
\* extension E the name before sanitize is S_R1.E for orientation forward,
\* S_R2.E for reverse and S.E without orientation; no other call gets a
\* name with _R1 or _R2.
C9_SampleNameSuffix ==
    Named(last) =>
        LET de == remote[last.did]
            S == de.metadata.sample_name
            E == de.type.extension
            o == de.metadata.orientation
            bySample == last.rename = "sample_name" /\ S # <<>>
            has(token) == \E i \in DOMAIN last.resolved : last.resolved[i] = token
        IN  /\ (bySample /\ o = <<"forward">>) => last.resolved = <<S[1], "_R1", ".", E>>
            /\ (bySample /\ o = <<"reverse">>) => last.resolved = <<S[1], "_R2", ".", E>>
            /\ (bySample /\ o = <<>>) => last.resolved = <<S[1], ".", E>>
            /\ has("_R1") => (bySample /\ o = <<"forward">>)
            /\ has("_R2") => (bySample /\ o = <<"reverse">>)

C9_Witness ==
    /\ last.rename = "sample_name"
    /\ remote[last.did].metadata.orientation = <<"reverse">>
    /\ last.resolved = <<"S", "_R2", ".", "fastq.gz">>
    /\ last.outcome = "Downloaded"

\* C10: under sample_name, a data element with a sample name and an
\* orientation other than forward and reverse makes the call raise
\* NotImplementedError with no download request sent and the directory
\* unchanged.
C10_UnsupportedOrientation ==
    [][(/\ DownloadStep
        /\ last'.at # "get_data_element"
        /\ batch.rename = "sample_name"
        /\ LET m == remote[Head(queue)].metadata
           IN  /\ m.sample_name # <<>>
               /\ m.orientation # <<>>
               /\ m.orientation[1] \notin {"forward", "reverse"})
       => (/\ last'.outcome = "NotImplementedError"
           /\ last'.at = "orientation"
           /\ last'.requests = <<"metadata">>
           /\ last'.written = 0
           /\ ~last'.renamed
           /\ fs' = fs
           /\ proc' = "raised")]_vars

C10_Witness ==
    /\ proc = "raised"
    /\ last.at = "orientation"
    /\ last.outcome = "NotImplementedError"
    /\ remote[last.did].metadata.orientation = <<"unknown">>
    /\ fs # EmptyDir

\* C11: under sample_name, a data element without sample name never makes
\* the call raise because of the naming, whatever its orientation: the name
\* resolved is the name field of the data element, which is the name
\* ergo_name gives, and the warning is written.
C11_MissingSampleNameFallsBack ==
    [][(/\ DownloadStep
        /\ last'.at # "get_data_element"
        /\ batch.rename = "sample_name"
        /\ remote[Head(queue)].metadata.sample_name = <<>>)
       => (/\ last'.at # "orientation"
           /\ last'.outcome # "NotImplementedError"
           /\ last'.resolved = remote[Head(queue)].name
           /\ last'.new_name = sanitize(remote[Head(queue)].name)
           /\ last'.warned)]_vars

\* The fallback taken for an orientation that a sample name would refuse.
C11_Witness ==
    /\ last.rename = "sample_name"
    /\ remote[last.did].metadata.sample_name = <<>>
    /\ remote[last.did].metadata.orientation = <<"unknown">>
    /\ last.warned
    /\ last.outcome = "Downloaded"
    /\ exists(fs, sanitize(remote[last.did].name))


---------------------------------------------------------------------------
\* Properties of the uploads.

\* The positions of the log at which `f` was posted to the upload endpoint.
PostsOf(f) == {i \in DOMAIN log : log[i].op = "upload" /\ log[i].file = <<f>>}

\* The requests that change something on the server.
Changing == {"upload", "update_data_element", "update_project", "create_project"}

\* C12: upload is a single attempt that surfaces its failure.  No file is
\* posted twice; after an upload answered with a status other than 200 the
\* command sends no further request (no retry, the project neither fetched
\* nor updated, nothing done as if the call had returned a data element)
\* and neither goes on with its loop nor returns normally.
C12_UploadFailureStops ==
    /\ \A f \in {cmd.first[i] : i \in DOMAIN cmd.first}
               \cup {cmd.second[i] : i \in DOMAIN cmd.second} :
           Cardinality(PostsOf(f)) <= 1
    /\ \A i \in DOMAIN log :
           (log[i].op = "upload" /\ log[i].status # 200)
               => (i = Len(log) /\ up_pc \notin {"running", "done"})

\* C15: self.headers holds exactly the Authorization entry with the bearer
\* key, whatever the command has done, and every request other than the
\* POST of upload is sent with exactly that entry.
C15_HeadersNeverChange ==
    /\ headers = {<<"Authorization", <<"Bearer", apikey>>>>}
    /\ \A i \in DOMAIN log :
           log[i].op # "upload"
               => log[i].headers = {<<"Authorization", <<"Bearer", apikey>>>>}

\* An upload sent with the Content-Type header, and a request after it.
C15_Witness ==
    \E i \in DOMAIN log :
        /\ log[i].op = "upload"
        /\ log[i].status = 200
        /\ \E item \in log[i].headers : item[1] = "Content-Type"
        /\ Cardinality(log[i].headers) = 2
        /\ \E j \in DOMAIN log : i < j /\ log[j].op = "update_data_element"

\* The paired lists of the command differ in length.
UnequalLists ==
    /\ cmd.entry = "handle_reads"
    /\ cmd.second # <<>>
    /\ Len(cmd.first) # Len(cmd.second)

\* C18: handle_reads with paired lists of unequal length sends no request
\* that changes the server: no upload, no update of a data element or of a
\* project, and no creation of a project.
C18_UnequalListsChangeNothing ==
    UnequalLists => \A i \in DOMAIN log : log[i].op \notin Changing

\* The id the server gave to the file f: the number of uploads it had
\* accepted when it accepted f.
IdOfFile(f) ==
    LET at == CHOOSE i \in PostsOf(f) : TRUE
    IN  Cardinality({j \in 1..at : log[j].op = "upload" /\ log[j].status = 200})

\* The orientation a letter of the orientation code names.
NamedBy(letter) == IF letter = "f" THEN "forward" ELSE "reverse"

\* The positions of the log at which the data element `id` was updated.
UpdatesOf(id) ==
    {i \in DOMAIN log : log[i].op = "update_data_element" /\ log[i].de = <<id>>}

\* C19: in a paired upload, for every pair i whose pass is complete the
\* update sent for the first read has as pair the id of the second read and
\* the orientation of the first letter of the code, the update sent for the
\* second read has as pair the id of the first read and the orientation of
\* the second letter, each read is updated once, and both uploads of the
\* pair were answered before either update was sent.  When the command
\* returns, every pair is complete.
C19_PairsLinkedSymmetrically ==
    (cmd.entry = "handle_reads" /\ cmd.second # <<>>) =>
        /\ up_pc = "done" /\ ~UnequalLists => idx = Len(cmd.first)
        /\ \A i \in 1..idx :
              LET p1 == cmd.first[i]
                  p2 == cmd.second[i]
              IN  /\ PostsOf(p1) # {} /\ PostsOf(p2) # {}
                  /\ Cardinality(UpdatesOf(IdOfFile(p1))) = 1
                  /\ Cardinality(UpdatesOf(IdOfFile(p2))) = 1
                  /\ IdOfFile(p1) # IdOfFile(p2)
                  /\ \A u \in UpdatesOf(IdOfFile(p1)) :
                        /\ log[u].pair = <<IdOfFile(p2)>>
                        /\ log[u].orientation = <<NamedBy(cmd.orientation[1])>>
                  /\ \A u \in UpdatesOf(IdOfFile(p2)) :
                        /\ log[u].pair = <<IdOfFile(p1)>>
                        /\ log[u].orientation = <<NamedBy(cmd.orientation[2])>>
                  /\ \A u \in UpdatesOf(IdOfFile(p1)) \cup UpdatesOf(IdOfFile(p2)),
                        a \in PostsOf(p1) \cup PostsOf(p2) : a < u
        /\ \A u \in DOMAIN log :
              log[u].op = "update_data_element"
                  => \E i \in 1..idx : log[u].de \in {<<IdOfFile(cmd.first[i])>>,
                                                       <<IdOfFile(cmd.second[i])>>}

\* Two pairs uploaded with the code rf, the command returned.
C19_Witness ==
    /\ cmd.entry = "handle_reads"
    /\ up_pc = "done"
    /\ Len(cmd.first) = 2
    /\ Len(cmd.second) = 2
    /\ cmd.orientation = <<"r", "f">>
    /\ Cardinality({i \in DOMAIN log : log[i].op = "update_data_element"}) = 4

---------------------------------------------------------------------------
\* Properties of `project create`.

\* The exit code of a process that has ended: 1 after exit(1) and after an
\* exception nobody catches, 0 after a return.
ExitCode == IF up_pc \in {"exit1", "raised"} THEN 1 ELSE 0

HasColon(p) == \E i \in DOMAIN p : p[i] = ":"

FirstColon(p) == CHOOSE i \in DOMAIN p : p[i] = ":" /\ \A j \in 1..(i - 1) : p[j] # ":"

\* The e-mail address an argument names: what stands before the first ":",
\* in lower case.
EmailOf(p) == [i \in 1..(FirstColon(p) - 1) |-> Lower(p[i])]

\* The permission an argument names: the field after the first ":", in
\* lower case.
PermissionOf(p) ==
    LET rest == SubSeq(p, FirstColon(p) + 1, Len(p))
    IN  IF HasColon(rest) THEN [i \in 1..(FirstColon(rest) - 1) |-> Lower(rest[i])]
        ELSE [i \in DOMAIN rest |-> Lower(rest[i])]

KnownUser(email) ==
    \E i \in DOMAIN Users :
        [j \in DOMAIN Users[i].email_address |-> Lower(Users[i].email_address[j])] = email

ValidArgument(p) ==
    /\ HasColon(p)
    /\ KnownUser(EmailOf(p))
    /\ PermissionOf(p) \in {<<"manage">>, <<"write">>, <<"read">>}

\* The permission a valid argument asks for.
RequestedPermission(p) ==
    [user |-> (CHOOSE u \in {Users[i] : i \in DOMAIN Users} :
                  [j \in DOMAIN u.email_address |-> Lower(u.email_address[j])] = EmailOf(p)).id,
     permission |-> PermissionOf(p)]

Creations == {i \in DOMAIN log : log[i].op = "create_project"}

\* The permissions asked for, followed by manage for the calling user.
RequestedPlusManage ==
    [i \in DOMAIN cmd.permissions |-> RequestedPermission(cmd.permissions[i])]
        \o <<[user |-> CallingUser, permission |-> <<"manage">>]>>

\* C13: create_project_from_cmdline validates every permission argument
\* before it creates anything.  If an argument lacks ":", names an e-mail
\* address that is no known user or names a permission outside manage,
\* write and read, the process exits with code 1 and no request to create
\* a project is sent; when all are valid, the project is created with the
\* permissions asked for plus manage for the calling user.
C13_PermissionsValidatedFirst ==
    cmd.entry = "create_project_from_cmdline" =>
        /\ (\E i \in DOMAIN cmd.permissions : ~ValidArgument(cmd.permissions[i]))
               => (ExitCode = 1 /\ Creations = {})
        /\ (\A i \in DOMAIN cmd.permissions : ValidArgument(cmd.permissions[i]))
               => \A c \in Creations : log[c].permissions = <<RequestedPlusManage>>

\* C13, amended: as C13 when at least one permission argument is given;
\* with no permission argument the request to create the project carries
\* no permissions at all.
C13_PermissionsValidatedWhenGiven ==
    cmd.entry = "create_project_from_cmdline" =>
        /\ (\E i \in DOMAIN cmd.permissions : ~ValidArgument(cmd.permissions[i]))
               => (ExitCode = 1 /\ Creations = {})
        /\ (/\ cmd.permissions # <<>>
            /\ \A i \in DOMAIN cmd.permissions : ValidArgument(cmd.permissions[i]))
               => \A c \in Creations : log[c].permissions = <<RequestedPlusManage>>
        /\ cmd.permissions = <<>>
               => (Creations # {} /\ \A c \in Creations : log[c].permissions = <<>>)

\* Two valid arguments, one in upper case, and the project created.
C13_Witness ==
    /\ cmd.entry = "create_project_from_cmdline"
    /\ cmd.permissions = <<<<"ANN@X", ":", "MANAGE">>, <<"bob@x", ":", "write">>>>
    /\ up_pc = "done"
    /\ \E c \in Creations :
          /\ log[c].status = 200
          /\ log[c].permissions =
                 <<<<[user |-> "u1", permission |-> <<"manage">>],
                     [user |-> "u2", permission |-> <<"write">>],
                     [user |-> "u0", permission |-> <<"manage">>]>>>>

---------------------------------------------------------------------------
\* Properties of the resolution of the API key.

\* A step that is one run of the program.
MainStep == runs' = runs + 1

\* C14: the key is resolved in a fixed order.  ERGO_API_KEY wins whenever
\* it is set; otherwise the dotfile is used when it exists; the prompt is
\* reached only when both are absent, and the key typed is then written to
\* the dotfile, so that a later run in the same environment does not prompt
\* again.
C14_KeyResolutionOrder ==
    [][MainStep =>
        /\ env_key # <<>> => (apikey' = env_key[1] /\ dotfile' = dotfile)
        /\ (env_key = <<>> /\ dotfile # <<>>)
               => (apikey' = rstrip(dotfile[1]) /\ dotfile' = dotfile)
        /\ prompted' <=> (env_key = <<>> /\ dotfile = <<>>)
        /\ prompted' => dotfile' = <<apikey'>>
        /\ (prompted /\ env_key = <<>>) => ~prompted']_vars

\* C14, amended: as C14, but the key typed is written to the dotfile only
\* when the home directory exists, and only then does a later run in the
\* same environment not prompt again; without a home directory nothing is
\* written.
C14_KeyResolutionOrderWithHome ==
    [][MainStep =>
        /\ env_key # <<>> => (apikey' = env_key[1] /\ dotfile' = dotfile)
        /\ (env_key = <<>> /\ dotfile # <<>>)
               => (apikey' = rstrip(dotfile[1]) /\ dotfile' = dotfile)
        /\ prompted' <=> (env_key = <<>> /\ dotfile = <<>>)
        /\ (prompted' /\ home) => dotfile' = <<apikey'>>
        /\ (prompted' /\ ~home) => dotfile' = <<>>
        /\ (prompted /\ env_key = <<>> /\ home) => ~prompted']_vars

\* A second run that takes from the dotfile the key the first run asked for.
C14_Witness ==
    /\ runs = 2
    /\ ~prompted
    /\ env_key = <<>>
    /\ home
    /\ dotfile = <<<<"k2", " ">>>>
    /\ apikey = <<"k2">>

---------------------------------------------------------------------------
\* Properties of the progress bars.

---------------------------------------------------------------------------
\* Properties of update_workflow.

\* The requests of one kind update_workflow has sent.
WfRequestsOf(op) == {k \in DOMAIN wf_log : wf_log[k].op = op}

\* The data element of a requested id was found: a fetch of it was
\* answered 200.
Found(i) ==
    \E k \in WfRequestsOf("get_data_element") :
        wf_log[k].id = i /\ wf_log[k].status = 200

\* The requested ids that are to become the inputs of the workflow.
Wanted ==
    {wf_args.inputs[k] : k \in
        {k \in DOMAIN wf_args.inputs :
            LET i == wf_args.inputs[k]
            IN  /\ Found(i)
                /\ Lower(remote[i].type.extension) = "fastq.gz"
                /\ remote[i].metadata.orientation = <<"forward">>}}

\* C21: once update_workflow has ended for a list of requested ids, every
\* id was fetched and every failed fetch reported; the workflow was then
\* fetched; when it was found, one save request carried exactly the found
\* forward fastq.gz ids, each once, and the server holds them if it answered
\* 200; when it was not found, no save request was sent.
C21_InputsReplacedByForwardReads ==
    (wf_pc \notin {"idle", "collecting"} /\ wf_args.given) =>
        /\ Cardinality(WfRequestsOf("get_data_element")) = Len(wf_args.inputs)
        /\ \A k \in WfRequestsOf("get_data_element") :
               /\ wf_log[k].id = wf_args.inputs[k]
               /\ wf_log[k].status # 200 =>
                      \E e \in DOMAIN err : err[e] = <<"Couldn't find Data element", wf_log[k].id>>
        /\ \E g \in WfRequestsOf("get_workflow") :
               /\ WfRequestsOf("get_workflow") = {g}
               /\ wf_log[g].id = wf_args.id
               /\ wf_log[g].status # 200 => WfRequestsOf("save_workflow") = {}
               /\ wf_log[g].status = 200 =>
                      \E s \in WfRequestsOf("save_workflow") :
                          LET sent == wf_log[s].inputs
                          IN  /\ WfRequestsOf("save_workflow") = {s}
                              /\ wf_log[s].id = wf_args.id
                              /\ {sent[k].data_element_id : k \in DOMAIN sent} = Wanted
                              /\ Len(sent) = Cardinality(Wanted)
                              /\ wf_log[s].status = 200 =>
                                     pipelines[wf_args.id].definition.inputs = sent

===========================================================================
